---- MODULE Spec2Model ----
(***************************************************************************)
(* Model of OSMDownloader (downloader_osm.py): the refresh run over the    *)
(* extract file map.pbf, its backup map.backup, the four base OSM tables   *)
(* and the two derived layer tables.                                       *)
(*                                                                         *)
(* Every external step (a file move, an HTTP request, one SQL statement,   *)
(* the osm2pgsql subprocess) is one action whose outcome is chosen         *)
(* nondeterministically among the outcomes the code distinguishes.         *)
(* SQL statements go through self.cur: while no connection is open         *)
(* (self.cur is None) every statement raises and is handled as a failure.  *)
(***************************************************************************)
EXTENDS Integers, Sequences, FiniteSets, TLC

\* ---------------------------------------------------------------- bounds
\* Largest remote / local extract size, in chunks.
MaxSize == 2
\* Largest number of size units one response.raw.read call returns.
MaxChunk == 2
\* Number of successive process invocations that are modelled.
MaxRuns == 2

\* ------------------------------------------------------ class attributes
TABLES_OSM == <<"planet_osm_line", "planet_osm_point", "planet_osm_polygon", "planet_osm_roads">>

\* LAYERS.keys(), in insertion order.
LAYERS == <<"line_water", "area_water">>

\* The base table each layer statement selects FROM.
LayerSource(layer) == IF layer = "line_water" THEN "planet_osm_line" ELSE "planet_osm_polygon"

\* f'{t}_backup'
Bk(t) == t \o "_backup"

Range(s) == {s[k] : k \in 1..Len(s)}

BackupNames(list) == [k \in 1..Len(list) |-> Bk(list[k])]

BaseTables == Range(TABLES_OSM)
LayerTables == Range(LAYERS)
AllTables == BaseTables \cup LayerTables \cup {Bk(t) : t \in BaseTables \cup LayerTables}

\* ------------------------------------------------------------ data values
\* A table is absent or holds a content version.
Absent == "absent"
Old == "old"
Partial == "partial"
Gen(r) == "gen" \o ToString(r)

\* A file is absent or has an origin (0: present before the first run,
\* r: written by download_pbf of run r) and a size.
NoFile == [gen |-> -1, size |-> 0]
File(g, s) == [gen |-> g, size |-> s]
Exists(f) == f.gen # -1

Ops == {"connect", "check_if_obsolete", "prepare_download", "download_pbf", "delete_backup",
        "restore_backup", "update_db", "backup_tables", "drop_tables", "update_osm_tables",
        "restore_tables", "create_layers", "backup_layers", "restore_layers",
        "line_water", "area_water"}

VARIABLES
    pc,                   \* position of the process
    runNo,                \* which process invocation this is
    force_download, force_update, recreate_layers,   \* arguments of run
    conn,                 \* self.conn / self.cur: "none", "open" or "closed"
    pbf, pbf_backup,      \* DOWNLOADS/map.pbf and DOWNLOADS/map.backup
    remote_file_size,     \* Content-Length of PBF_URL
    tbl,                  \* the tables of CONFIG.SCHEMA
    pre,                  \* tbl as it was when run was entered
    pre_files,            \* <<pbf, pbf_backup>> as they were when run was entered
    download_is_obsolete, \* run: result of check_if_obsolete
    download_is_done,     \* run: local of line 66
    file_backup_is_done,  \* run: result of prepare_download
    downloaded_size,      \* download_pbf: loop counter
    fetched,              \* prepare_update: result of download_pbf
    tb_backup_is_done,    \* update_db: result of backup_tables
    update_complete,      \* update_db: result of update_osm_tables
    restored,             \* update_db: result of restore_tables
    ly_backup_is_done,    \* create_layers: result of backup_layers
    layers_created,       \* create_layers: local of line 352
    idx,                  \* index of the running for-loop
    exitCode,             \* -1 while running, else the process exit status
    prev_exitCode,        \* exit status of the invocation before this one, else -1
    calls                 \* how often each operation was entered in this run

vars == <<pc, runNo, force_download, force_update, recreate_layers, conn, pbf, pbf_backup,
          remote_file_size, tbl, pre, pre_files, download_is_obsolete, download_is_done,
          file_backup_is_done, downloaded_size, fetched, tb_backup_is_done, update_complete,
          restored, ly_backup_is_done, layers_created, idx, exitCode, prev_exitCode, calls>>

fileVars == <<pbf, pbf_backup>>
flagVars == <<force_download, force_update, recreate_layers>>
dbLocals == <<tb_backup_is_done, update_complete, restored, ly_backup_is_done, layers_created>>
fileLocals == <<download_is_obsolete, download_is_done, file_backup_is_done, downloaded_size, fetched>>
envVars == <<runNo, remote_file_size, pre, pre_files, prev_exitCode>>

Min(a, b) == IF a < b THEN a ELSE b

Called(op) == calls' = [calls EXCEPT ![op] = @ + 1]

CalledAll(ops) == calls' = [o \in Ops |-> IF o \in ops THEN calls[o] + 1 ELSE calls[o]]

\* The outcomes one statement on self.cur can have (TRUE: executed and
\* committed).  With no open connection self.cur is None and execute raises,
\* which every caller handles as a failed statement.  On an open connection
\* a statement fails when execute raises (the transaction stays aborted, no
\* method rolls back, and the later statements fail too) or when commit
\* raises (later statements can succeed): every statement may fail or
\* succeed on its own, which covers both.
StmtOutcomes == IF conn = "open" THEN {TRUE, FALSE} ELSE {FALSE}

\* sys.exit(code)
Exit(code) == /\ pc' = "exited"
              /\ exitCode' = code

\* An exception that nothing catches: the interpreter prints the traceback
\* and the process ends with status 1.
Crash == /\ pc' = "crashed"
         /\ exitCode' = 1

\* ------------------------------------------------------------------ Init
\* __init__: conn and cur are None.  The file system and the data base are
\* either those of a first installation or of an installed system.
Init ==
    /\ pc = "idle"
    /\ runNo = 1
    /\ force_download = FALSE /\ force_update = FALSE /\ recreate_layers = FALSE
    /\ conn = "none"
    /\ pbf \in {NoFile} \cup {File(0, s) : s \in 1..MaxSize}
    /\ pbf_backup = NoFile
    /\ remote_file_size \in 1..MaxSize
    /\ \E base \in {Absent, Old}, lay \in {Absent, Old} :
         tbl = [t \in AllTables |-> IF t \in BaseTables THEN base
                                    ELSE IF t \in LayerTables THEN lay ELSE Absent]
    /\ pre = tbl
    /\ pre_files = <<pbf, pbf_backup>>
    /\ download_is_obsolete = FALSE /\ download_is_done = FALSE
    /\ file_backup_is_done = FALSE /\ downloaded_size = 0 /\ fetched = FALSE
    /\ tb_backup_is_done = FALSE /\ update_complete = FALSE /\ restored = FALSE
    /\ ly_backup_is_done = FALSE /\ layers_created = FALSE
    /\ idx = 0
    /\ exitCode = -1
    /\ prev_exitCode = -1
    /\ calls = [o \in Ops |-> 0]

\* ------------------------------------------------------------- run: flow
\* Lines 75-76: the layers are rebuilt when the tables were updated or on request.
RunAfterDb(db_updated, rl) == IF db_updated \/ rl THEN "backup_layers" ELSE "done"

\* Lines 73-74: the tables are updated when download_is_done or on request.
RunAfterFile(did, fu, rl) == IF did \/ fu THEN "backup_tables" ELSE RunAfterDb(FALSE, rl)

\* Lines 68-72.
RunAfterCheck(obsolete, fd, fu, rl) ==
    IF obsolete \/ fd THEN "prepare_download"
    ELSE IF ~fu /\ ~rl THEN "exit0"
    ELSE RunAfterFile(FALSE, fu, rl)

\* Control moves to position p; every for-loop starts at its first element.
\* "done" is run returning to the script, which then ends with status 0.
\* "exit0" and "exit1" are sys.exit(0) and sys.exit(1).
Goto(p) ==
    /\ pc' = (IF p \in {"exit0", "exit1"} THEN "exited" ELSE p)
    /\ exitCode' = (IF p \in {"exit0", "done"} THEN 0 ELSE IF p = "exit1" THEN 1 ELSE exitCode)
    /\ idx' = 1

\* connect(), lines 187-205.  run never calls it; a caller of the class can,
\* before run.
Connect ==
    /\ pc = "idle"
    /\ conn = "none"
    /\ Called("connect")
    /\ \E ok \in BOOLEAN :
         IF ok THEN /\ conn' = "open"
                    /\ UNCHANGED <<pc, exitCode>>
         ELSE /\ Exit(1)
              /\ UNCHANGED conn
    /\ UNCHANGED <<flagVars, fileVars, tbl, dbLocals, fileLocals, envVars, idx>>

\* run(force_download, force_update, recreate_layers), lines 64-67.
RunWith(fd, fu, rl) ==
    /\ pc = "idle"
    /\ force_download' = fd
    /\ force_update' = fu
    /\ recreate_layers' = rl
    /\ pc' = "check_if_obsolete"
    /\ pre' = tbl
    /\ pre_files' = <<pbf, pbf_backup>>
    /\ UNCHANGED <<runNo, remote_file_size, conn, fileVars, tbl, dbLocals, fileLocals, idx,
                   exitCode, prev_exitCode, calls>>

Run == \E fd \in BOOLEAN, fu \in BOOLEAN, rl \in BOOLEAN : RunWith(fd, fu, rl)

\* run() with the defaults of its parameters: no flag is set.
RunNoFlags == RunWith(FALSE, FALSE, FALSE)

\* Mutant of CheckIfObsoleteResult: the comparison of the sizes is inverted.
CheckIfObsoleteResult_Inverted(local, remote) ==
    IF ~Exists(local) THEN FALSE ELSE local.size = remote

\* check_if_obsolete(), lines 131-149, and the branch of run on its result.
\* os.stat raises FileNotFoundError for a missing file; an error of
\* requests.head is not caught anywhere and ends the process.
CheckIfObsoleteResult(local, remote) ==
    IF ~Exists(local) THEN FALSE
    ELSE local.size # remote

CheckIfObsolete ==
    /\ pc = "check_if_obsolete"
    /\ Called("check_if_obsolete")
    /\ \E head_ok \in (IF Exists(pbf) THEN BOOLEAN ELSE {TRUE}) :
         IF head_ok
         THEN /\ download_is_obsolete' = CheckIfObsoleteResult(pbf, remote_file_size)
              /\ Goto(RunAfterCheck(download_is_obsolete', force_download, force_update,
                                    recreate_layers))
         ELSE /\ Crash
              /\ UNCHANGED <<download_is_obsolete, idx>>
    /\ UNCHANGED <<flagVars, conn, fileVars, tbl, dbLocals, envVars, download_is_done,
                   file_backup_is_done, downloaded_size, fetched>>

\* Mutant of AfterManageBackup: every OSError is taken for "no file", the
\* download goes on without a backup.
AfterManageBackup_Proceeds(out) == "download_pbf"

\* Lines 83-99 and 125-129: FileNotFoundError is caught in manage_backup and
\* the download goes on without backup; PermissionError and any other
\* OSError end the process.
AfterManageBackup(out) == IF out = "oserror" THEN "exit1" ELSE "download_pbf"

\* prepare_download(), lines 78-99, with manage_backup and _create_file_backup:
\* shutil.move of map.pbf onto map.backup.
PrepareDownload ==
    /\ pc = "prepare_download"
    /\ Called("prepare_download")
    /\ \E out \in (IF Exists(pbf) THEN {"moved", "oserror"} ELSE {"notfound"}) :
         /\ pbf' = (IF out = "moved" THEN NoFile ELSE pbf)
         /\ pbf_backup' = (IF out = "moved" THEN pbf ELSE pbf_backup)
         /\ file_backup_is_done' = (out = "moved")
         /\ Goto(AfterManageBackup(out))
    /\ UNCHANGED <<flagVars, conn, tbl, dbLocals, envVars, download_is_obsolete,
                   download_is_done, downloaded_size, fetched>>

\* download_pbf(), lines 164-171: open(map_file, "wb") truncates the file,
\* requests.get opens the stream.  Any exception makes download_pbf return False.
DownloadOpen ==
    /\ pc = "download_pbf"
    /\ Called("download_pbf")
    /\ downloaded_size' = 0
    /\ \E out \in {"open_err", "get_err", "ok"} :
         /\ pbf' = (IF out = "open_err" THEN pbf ELSE File(runNo, 0))
         /\ IF out = "ok" /\ 0 < remote_file_size
            THEN /\ pc' = "download_loop"
                 /\ UNCHANGED fetched
            ELSE /\ pc' = "prepare_update"
                 /\ fetched' = (out = "ok")
    /\ UNCHANGED <<flagVars, conn, pbf_backup, tbl, dbLocals, envVars, download_is_obsolete,
                   download_is_done, file_backup_is_done, idx, exitCode>>

\* What download_pbf returns when the loop of lines 172-177 is left by break
\* or by its condition: True, whatever was written (line 185).
DownloadLoopResult(downloaded, total) == TRUE

\* One pass of the loop of lines 172-181.  n = -1: response.raw.read raises;
\* n = 0: an empty chunk (the stream has ended); n > 0: a chunk of n units.
DownloadChunk ==
    /\ pc = "download_loop"
    /\ downloaded_size < remote_file_size
    /\ \E n \in -1..Min(MaxChunk, remote_file_size - downloaded_size) :
         IF n = -1
         THEN /\ fetched' = FALSE
              /\ pc' = "prepare_update"
              /\ UNCHANGED <<pbf, downloaded_size>>
         ELSE IF n = 0
         THEN /\ fetched' = DownloadLoopResult(downloaded_size, remote_file_size)
              /\ pc' = "prepare_update"
              /\ UNCHANGED <<pbf, downloaded_size>>
         ELSE /\ downloaded_size' = downloaded_size + n
              /\ pbf' = File(runNo, pbf.size + n)
              /\ IF downloaded_size' < remote_file_size
                 THEN /\ UNCHANGED <<pc, fetched>>
                 ELSE /\ fetched' = DownloadLoopResult(downloaded_size', remote_file_size)
                      /\ pc' = "prepare_update"
    /\ UNCHANGED <<flagVars, conn, pbf_backup, tbl, dbLocals, envVars, download_is_obsolete,
                   download_is_done, file_backup_is_done, idx, exitCode, calls>>

\* Mutant of RestoreBackupFiles: the backup is copied back, not moved.
RestoreBackupFiles_Copies(live, backup, moved) ==
    IF moved /\ Exists(backup) THEN <<backup, backup>> ELSE <<live, backup>>

\* restore_backup(), lines 220-225: <<map.pbf, map.backup>> after shutil.move
\* of the backup onto the extract path; a failure is only logged.
RestoreBackupFiles(live, backup, moved) ==
    IF moved /\ Exists(backup) THEN <<backup, NoFile>> ELSE <<live, backup>>

\* prepare_update(), lines 107-117, with delete_backup (lines 227-241) and
\* restore_backup (lines 216-225), whose failures are only logged.  run
\* discards the value prepare_update returns (line 70).
PrepareUpdate ==
    /\ pc = "prepare_update"
    /\ IF file_backup_is_done /\ fetched
       THEN /\ Called("delete_backup")
            /\ \E removed \in BOOLEAN :
                 pbf_backup' = (IF removed THEN NoFile ELSE pbf_backup)
            /\ Goto(RunAfterFile(download_is_done, force_update, recreate_layers))
            /\ UNCHANGED pbf
       ELSE IF file_backup_is_done /\ ~fetched
       THEN /\ Called("restore_backup")
            /\ \E moved \in BOOLEAN :
                 /\ pbf' = RestoreBackupFiles(pbf, pbf_backup, moved)[1]
                 /\ pbf_backup' = RestoreBackupFiles(pbf, pbf_backup, moved)[2]
            /\ Exit(1)
            /\ UNCHANGED idx
       ELSE /\ Exit(1)
            /\ UNCHANGED <<fileVars, idx, calls>>
    /\ UNCHANGED <<flagVars, conn, tbl, dbLocals, envVars, fileLocals>>

\* ------------------------------------------------------------ statements
\* _copy_table(orig, dest), lines 263-276: one query that drops dest,
\* creates it LIKE orig and fills it from orig, then commits.  It raises
\* (and changes nothing) when the statement fails or orig does not exist.
CopyTableOk(t, orig, ok) == ok /\ t[orig] # Absent

CopyTable(t, orig, dest, ok) ==
    IF CopyTableOk(t, orig, ok) THEN [t EXCEPT ![dest] = t[orig]] ELSE t

\* DROP TABLE IF EXISTS name; commit (lines 321-323).
DropTable(t, name, ok) == IF ok THEN [t EXCEPT ![name] = Absent] ELSE t

\* A layer statement (lines 40-57, 357-358): SELECT ... INTO layer FROM its
\* base table.  It fails when the layer exists or the base table is missing.
BuildLayerOk(t, layer, ok) == ok /\ t[layer] = Absent /\ t[LayerSource(layer)] # Absent

BuildLayerTable(t, layer, ok) ==
    IF BuildLayerOk(t, layer, ok) THEN [t EXCEPT ![layer] = t[LayerSource(layer)]] ELSE t

\* The for-loop over list goes on to its next element, or is left for position next.
Advance(list, next) ==
    IF idx < Len(list)
    THEN /\ idx' = idx + 1
         /\ UNCHANGED <<pc, exitCode>>
    ELSE Goto(next)

\* One pass of drop_tables(list), lines 319-327: the first failing
\* statement ends the loop; callers ignore the value returned.
DropTablesStep(list, next) ==
    \E ok \in StmtOutcomes :
      /\ tbl' = DropTable(tbl, list[idx], ok)
      /\ IF ok THEN Advance(list, next) ELSE Goto(next)

dbFrame == <<flagVars, conn, fileVars, envVars, fileLocals>>

\* -------------------------------------------------------------- update_db
\* Mutant of AfterBackupTables: a failed backup ends the run before any drop.
AfterBackupTables_Aborts(backup_is_done) == IF backup_is_done THEN "drop_tables" ELSE "exit1"

\* Line 248: drop_tables follows backup_tables whatever backup_tables returned.
AfterBackupTables(backup_is_done) == "drop_tables"

\* backup_tables(TABLES_OSM), lines 247 and 285-293: the first failing copy
\* ends the loop with False.
BackupTables ==
    /\ pc = "backup_tables"
    /\ IF idx = 1 THEN CalledAll({"update_db", "backup_tables"}) ELSE UNCHANGED calls
    /\ \E ok \in StmtOutcomes :
         LET t == TABLES_OSM[idx] IN
         /\ tbl' = CopyTable(tbl, t, Bk(t), ok)
         /\ IF CopyTableOk(tbl, t, ok)
            THEN /\ tb_backup_is_done' = (idx = Len(TABLES_OSM))
                 /\ Advance(TABLES_OSM, AfterBackupTables(TRUE))
            ELSE /\ tb_backup_is_done' = FALSE
                 /\ Goto(AfterBackupTables(FALSE))
    /\ UNCHANGED <<dbFrame, update_complete, restored, ly_backup_is_done, layers_created>>

\* drop_tables(TABLES_OSM), line 248.
DropTables ==
    /\ pc = "drop_tables"
    /\ IF idx = 1 THEN Called("drop_tables") ELSE UNCHANGED calls
    /\ DropTablesStep(TABLES_OSM, "update_osm_tables")
    /\ UNCHANGED <<dbFrame, dbLocals>>

\* Lines 250-261: what follows update_osm_tables.
AfterImport(complete, backup_is_done) ==
    IF complete /\ backup_is_done THEN "commit_tables"
    ELSE IF ~complete THEN (IF backup_is_done THEN "restore_tables" ELSE "update_db_fail")
    ELSE "return"

\* Mutant of AfterUpdateFail: sys.exit(1) is missing, update_db returns
\* update_complete to run.
AfterUpdateFail_Returns(rl) == "return"

\* Lines 257-259: a failed import ends the process.
AfterUpdateFail(rl) == "exit1"

\* The base tables after osm2pgsql -c, which works on its own connection:
\* on success all four hold the imported data; on failure they are as they
\* were or hold what was loaded before the failure.
ImportTables(t, out, r) ==
    [n \in AllTables |->
        IF n \notin BaseTables THEN t[n]
        ELSE IF out = "ok" THEN Gen(r)
        ELSE IF out = "fail_partial" THEN Partial
        ELSE t[n]]

\* update_osm_tables(), lines 249 and 329-347, and the branch of lines 250-253.
\* subprocess.run raising (no osm2pgsql) is caught nowhere and ends the process.
UpdateOsmTables ==
    /\ pc = "update_osm_tables"
    /\ Called("update_osm_tables")
    /\ \E out \in {"ok", "fail", "fail_partial", "raise"} :
         /\ out = "ok" => Exists(pbf)
         /\ tbl' = ImportTables(tbl, out, runNo)
         /\ IF out = "raise"
            THEN /\ Crash
                 /\ UNCHANGED <<update_complete, idx>>
            ELSE /\ update_complete' = (out = "ok")
                 /\ LET p == AfterImport(update_complete', tb_backup_is_done) IN
                    Goto(IF p = "return" THEN RunAfterDb(update_complete', recreate_layers)
                         ELSE p)
    /\ UNCHANGED <<dbFrame, tb_backup_is_done, restored, ly_backup_is_done, layers_created>>

\* Line 251: the backups are dropped; update_db returns update_complete to run.
CommitTables ==
    /\ pc = "commit_tables"
    /\ DropTablesStep(BackupNames(TABLES_OSM), RunAfterDb(update_complete, recreate_layers))
    /\ UNCHANGED <<dbFrame, dbLocals, calls>>

\* Mutant of AfterRestoreTables: the backups are dropped whatever
\* restore_tables returned.
AfterRestoreTables_AlwaysDrops(ok) == "drop_restored"

\* Lines 254-256: after a complete restore the backups are dropped.
AfterRestoreTables(ok) == IF ok THEN "drop_restored" ELSE "update_db_fail"

\* restore_tables(TABLES_OSM), lines 254 and 302-311: the first failing copy
\* ends the loop with False.
RestoreTables ==
    /\ pc = "restore_tables"
    /\ IF idx = 1 THEN Called("restore_tables") ELSE UNCHANGED calls
    /\ \E ok \in StmtOutcomes :
         LET t == TABLES_OSM[idx] IN
         /\ tbl' = CopyTable(tbl, Bk(t), t, ok)
         /\ IF CopyTableOk(tbl, Bk(t), ok)
            THEN /\ restored' = (idx = Len(TABLES_OSM))
                 /\ Advance(TABLES_OSM, AfterRestoreTables(TRUE))
            ELSE /\ restored' = FALSE
                 /\ Goto(AfterRestoreTables(FALSE))
    /\ UNCHANGED <<dbFrame, tb_backup_is_done, update_complete, ly_backup_is_done,
                   layers_created>>

\* Line 255.
DropRestored ==
    /\ pc = "drop_restored"
    /\ DropTablesStep(BackupNames(TABLES_OSM), "update_db_fail")
    /\ UNCHANGED <<dbFrame, dbLocals, calls>>

\* Lines 257-259 and disconnect(), lines 207-214.
UpdateDbFail ==
    /\ pc = "update_db_fail"
    /\ conn' = (IF conn = "open" THEN "closed" ELSE conn)
    /\ Goto(IF AfterUpdateFail(recreate_layers) = "return"
            THEN RunAfterDb(update_complete, recreate_layers)
            ELSE AfterUpdateFail(recreate_layers))
    /\ UNCHANGED <<flagVars, fileVars, envVars, fileLocals, tbl, dbLocals, calls>>

\* ---------------------------------------------------------- create_layers
\* backup_layers(), lines 351 and 370-379, and line 352.
BackupLayers ==
    /\ pc = "backup_layers"
    /\ IF idx = 1 THEN CalledAll({"create_layers", "backup_layers"}) ELSE UNCHANGED calls
    /\ layers_created' = TRUE
    /\ \E ok \in StmtOutcomes :
         LET l == LAYERS[idx] IN
         /\ tbl' = CopyTable(tbl, l, Bk(l), ok)
         /\ IF CopyTableOk(tbl, l, ok)
            THEN /\ ly_backup_is_done' = (idx = Len(LAYERS))
                 /\ Advance(LAYERS, "drop_layers")
            ELSE /\ ly_backup_is_done' = FALSE
                 /\ Goto("drop_layers")
    /\ UNCHANGED <<dbFrame, tb_backup_is_done, update_complete, restored>>

\* drop_tables(list(LAYERS.keys())), line 353.
DropLayers ==
    /\ pc = "drop_layers"
    /\ DropTablesStep(LAYERS, "build_layers")
    /\ UNCHANGED <<dbFrame, dbLocals, calls>>

\* Mutant of AfterBuild: a failed layer statement restarts the loop once.
AfterBuild_Retries(created, backup_is_done) ==
    IF ~created /\ calls[LAYERS[1]] < 1 THEN "build_layers"
    ELSE IF ~created THEN "exit1"
    ELSE IF backup_is_done THEN "commit_layers"
    ELSE "done"

\* Mutant of AfterBuild: the test of layers_created (line 363) is missing.
AfterBuild_NoExit(created, backup_is_done) ==
    IF backup_is_done THEN "commit_layers" ELSE "done"

\* Lines 363-368: what follows the loop over the layer statements.
AfterBuild(created, backup_is_done) ==
    IF ~created THEN "exit1"
    ELSE IF backup_is_done THEN "commit_layers"
    ELSE "done"

\* One pass of the loop of lines 354-362: the first failing statement
\* breaks the loop.
BuildLayer ==
    /\ pc = "build_layers"
    /\ Called(LAYERS[idx])
    /\ \E ok \in StmtOutcomes :
         LET l == LAYERS[idx] IN
         /\ tbl' = BuildLayerTable(tbl, l, ok)
         /\ IF BuildLayerOk(tbl, l, ok)
            THEN /\ UNCHANGED layers_created
                 /\ Advance(LAYERS, AfterBuild(TRUE, ly_backup_is_done))
            ELSE /\ layers_created' = FALSE
                 /\ Goto(AfterBuild(FALSE, ly_backup_is_done))
    /\ UNCHANGED <<dbFrame, tb_backup_is_done, update_complete, restored, ly_backup_is_done>>

\* Line 367; create_layers and run then return.
CommitLayers ==
    /\ pc = "commit_layers"
    /\ DropTablesStep(BackupNames(LAYERS), "done")
    /\ UNCHANGED <<dbFrame, dbLocals, calls>>

\* ------------------------------------------------------------- processes
\* The process has ended; the script is started again (lines 407-409) on
\* the files and tables the last run left.
NextRun ==
    /\ pc \in {"done", "exited", "crashed"}
    /\ runNo < MaxRuns
    /\ runNo' = runNo + 1
    /\ pc' = "idle"
    /\ conn' = "none"
    /\ force_download' = FALSE /\ force_update' = FALSE /\ recreate_layers' = FALSE
    /\ pre' = tbl
    /\ pre_files' = <<pbf, pbf_backup>>
    /\ download_is_obsolete' = FALSE /\ download_is_done' = FALSE
    /\ file_backup_is_done' = FALSE /\ downloaded_size' = 0 /\ fetched' = FALSE
    /\ tb_backup_is_done' = FALSE /\ update_complete' = FALSE /\ restored' = FALSE
    /\ ly_backup_is_done' = FALSE /\ layers_created' = FALSE
    /\ idx' = 0
    /\ exitCode' = -1
    /\ prev_exitCode' = exitCode
    /\ calls' = [o \in Ops |-> 0]
    /\ UNCHANGED <<fileVars, remote_file_size, tbl>>

Next ==
    \/ Connect
    \/ Run
    \/ CheckIfObsolete
    \/ PrepareDownload
    \/ DownloadOpen
    \/ DownloadChunk
    \/ PrepareUpdate
    \/ BackupTables
    \/ DropTables
    \/ UpdateOsmTables
    \/ CommitTables
    \/ RestoreTables
    \/ DropRestored
    \/ UpdateDbFail
    \/ BackupLayers
    \/ DropLayers
    \/ BuildLayer
    \/ CommitLayers

\* One invocation of the script, with any flags.
Spec == Init /\ [][Next]_vars

\* Successive invocations of the script with no flag set.
NextTwice ==
    \/ RunNoFlags
    \/ CheckIfObsolete
    \/ PrepareDownload
    \/ DownloadOpen
    \/ DownloadChunk
    \/ PrepareUpdate
    \/ NextRun

SpecTwice == Init /\ [][NextTwice]_vars

\* run is one thread of control: a step that can be taken is taken, every
\* call into the file system, the server, osm2pgsql or the database returns.
SpecFair == Spec /\ WF_vars(Next)

TypeOK ==
    /\ pc \in {"idle", "check_if_obsolete", "prepare_download", "download_pbf", "download_loop",
               "prepare_update", "backup_tables", "drop_tables", "update_osm_tables",
               "commit_tables", "restore_tables", "drop_restored", "update_db_fail",
               "backup_layers", "drop_layers", "build_layers", "commit_layers", "done",
               "exited", "crashed"}
    /\ exitCode \in {-1, 0, 1}
    /\ prev_exitCode \in {-1, 0, 1}
    /\ conn \in {"none", "open", "closed"}
    /\ \A t \in AllTables : tbl[t] \in {Absent, Old, Partial} \cup {Gen(r) : r \in 1..MaxRuns}

\* ================================================================ claims
\* Positions inside update_db and inside create_layers.
UpdateDbPcs == {"backup_tables", "drop_tables", "update_osm_tables", "commit_tables",
                "restore_tables", "drop_restored", "update_db_fail"}
CreateLayersPcs == {"backup_layers", "drop_layers", "build_layers", "commit_layers"}

\* update_db was called and has returned or has ended the process by sys.exit.
UpdateDbEnded == calls["update_db"] = 1 /\ pc \notin UpdateDbPcs \cup {"crashed"}

\* create_layers was called and has returned or has ended the process.
CreateLayersEnded == calls["create_layers"] = 1 /\ pc \in {"done", "exited"}

\* The importer was run and exited with a status other than 0.
ImporterFailed == calls["update_osm_tables"] = 1 /\ ~update_complete /\ pc # "crashed"

Present(t) == tbl[t] # Absent

\* Exactly one of a table and its backup exists.
Dual(t) == Present(t) # Present(Bk(t))

\* C1: after a completed update_db / create_layers, every table of the set
\* that existed before the call has exactly one of {table, table_backup},
\* unless the produce step failed and the restore was tried and failed too.
C1_ResourceDuality ==
    /\ UpdateDbEnded =>
         \/ ImporterFailed /\ calls["restore_tables"] = 1 /\ ~restored
         \/ \A t \in BaseTables : pre[t] # Absent => Dual(t)
    /\ CreateLayersEnded =>
         \/ ~layers_created /\ calls["restore_layers"] = 1
         \/ \A l \in LayerTables : pre[l] # Absent => Dual(l)

BackupsArePrefix(list) ==
    \A i \in 1..Len(list), j \in 1..Len(list) :
        i < j /\ Present(Bk(list[j])) => Present(Bk(list[i]))

C3_RestoreCorrectness ==
    (UpdateDbEnded /\ tb_backup_is_done /\ ImporterFailed) =>
        \A t \in BaseTables : tbl[t] = pre[t] /\ ~Present(Bk(t))

\* C3 as amended: every backup copy succeeded and the importer failed: when
\* update_db has ended the pre-call content of every base table is in the
\* table or in its backup; if every restore copy succeeded every base table
\* has its pre-call content and the backups still there are the ones whose
\* drop was not reached; if a restore copy failed all backups are kept.
C3_RestoreWhenCopiesSucceed ==
    (UpdateDbEnded /\ tb_backup_is_done /\ ImporterFailed) =>
        /\ \A t \in BaseTables : pre[t] \in {tbl[t], tbl[Bk(t)]}
        /\ \A t \in BaseTables : tbl[Bk(t)] \in {Absent, pre[t]}
        /\ restored => \A t \in BaseTables : tbl[t] = pre[t]
        /\ restored =>
             \A i \in 1..Len(TABLES_OSM), j \in 1..Len(TABLES_OSM) :
                 i < j /\ ~Present(Bk(TABLES_OSM[j])) => ~Present(Bk(TABLES_OSM[i]))
        /\ ~restored => \A t \in BaseTables : tbl[Bk(t)] = pre[t]

\* C3 witness: the importer left partial tables, the restore and the drops
\* of the backups all succeeded.
C3_Witness ==
    /\ UpdateDbEnded /\ tb_backup_is_done /\ ImporterFailed /\ restored
    /\ \A t \in BaseTables : tbl[t] = Old /\ ~Present(Bk(t))

\* C4: when the produce step succeeded, no backup table of the set exists
\* once the call has returned.
C4_CommitCorrectness ==
    /\ (UpdateDbEnded /\ update_complete) => \A t \in BaseTables : ~Present(Bk(t))
    /\ (CreateLayersEnded /\ layers_created) => \A l \in LayerTables : ~Present(Bk(l))

\* C5: the layer backups succeeded and a layer statement failed: when the
\* run has ended every layer table is there again with its pre-call content.
C5_LayersRestored ==
    (CreateLayersEnded /\ ly_backup_is_done /\ ~layers_created) =>
        \A l \in LayerTables : tbl[l] = pre[l]

Terminal == pc \in {"done", "exited", "crashed"}

\* C6: the importer failed: once update_db is left the process has ended
\* with a status other than 0, whether the restore succeeded or not, and
\* create_layers was not entered: no layer statement ran and the layer
\* tables and their backups are untouched.
C6_ImportFailureIsFatal ==
    (calls["update_osm_tables"] = 1 /\ ~update_complete /\ pc \notin UpdateDbPcs) =>
        /\ pc \in {"exited", "crashed"}
        /\ exitCode = 1
        /\ calls["create_layers"] = 0 /\ calls["backup_layers"] = 0
        /\ \A l \in LayerTables : calls[l] = 0 /\ tbl[l] = pre[l] /\ tbl[Bk(l)] = pre[Bk(l)]

\* C6 witness: recreate_layers was set, the importer failed, the restore
\* succeeded and the process has ended with status 1.
C6_Witness ==
    /\ recreate_layers
    /\ ImporterFailed /\ restored
    /\ pc = "exited" /\ exitCode = 1

\* The fetch, the importer and the layer statements succeeded, as far as
\* the run invoked them.
FetchOk == calls["download_pbf"] = 0 \/ (fetched /\ downloaded_size = remote_file_size)
ImportOk == calls["update_osm_tables"] = 0 \/ update_complete
LayersOk == calls["create_layers"] = 0 \/ layers_created

NoFlags == ~force_download /\ ~force_update /\ ~recreate_layers

\* C7: a run without flags that found no extract file and in which no
\* fetch, import or layer statement failed ends in Done with the new extract
\* in place, no backup file, no backup table and both layer tables.
C7_SuccessfulRefresh ==
    (Terminal /\ calls["check_if_obsolete"] = 1 /\ ~Exists(pre_files[1]) /\ NoFlags
       /\ FetchOk /\ ImportOk /\ LayersOk) =>
        /\ pc = "done"
        /\ pbf = File(runNo, remote_file_size)
        /\ ~Exists(pbf_backup)
        /\ \A t \in BaseTables \cup LayerTables : ~Present(Bk(t))
        /\ \A l \in LayerTables : Present(l)

\* C8: with no extract file, check_if_obsolete reports that a refresh is
\* needed and run goes on to prepare_download, whatever the flags.
C8_MissingNeedsRefresh ==
    (calls["check_if_obsolete"] = 1 /\ ~Exists(pre_files[1])) =>
        /\ download_is_obsolete
        /\ pc = "prepare_download" \/ calls["prepare_download"] = 1

\* C9: once the file replacement has been committed after a complete fetch,
\* update_db is what run does next; and update_db runs only after such a
\* fetch or with force_update.
C9_FreshExtractProceeds ==
    /\ (calls["delete_backup"] = 1 /\ fetched /\ downloaded_size = remote_file_size) =>
          pc = "backup_tables" \/ calls["update_db"] = 1
    /\ calls["update_db"] = 1 =>
          force_update \/ (fetched /\ downloaded_size = remote_file_size)

\* C10: download_pbf returns True only if it wrote as many bytes as the
\* Content-Length declares.
C10_FetchSuccessMeansFullLength ==
    fetched => downloaded_size = remote_file_size

\* The file stage of run (prepare_download, download_pbf, prepare_update)
\* was entered and has ended.
FilePcs == {"prepare_download", "download_pbf", "download_loop", "prepare_update"}
FileStageEnded == calls["prepare_download"] = 1 /\ pc \notin FilePcs

\* download_pbf has returned with fewer bytes written than the declared length.
FetchCameUpShort ==
    /\ calls["download_pbf"] = 1
    /\ pc \notin {"download_pbf", "download_loop"}
    /\ downloaded_size < remote_file_size

\* C11: the extract was moved to the backup and the fetch wrote fewer bytes
\* than the declared length (transport error or early end of the stream):
\* once prepare_update is over, restore_backup was called, delete_backup was
\* not, the process has ended with a status other than 0 and neither
\* update_db nor create_layers was entered.
C11_ShortFetchRollsBack ==
    (FileStageEnded /\ file_backup_is_done /\ FetchCameUpShort)
        => /\ calls["restore_backup"] = 1
           /\ calls["delete_backup"] = 0
           /\ pc = "exited" /\ exitCode = 1
           /\ calls["update_db"] = 0 /\ calls["create_layers"] = 0
           /\ tbl = pre

\* C12: a run without flags whose freshness check found the extract with the
\* size the server declares ends with status 0 and leaves the extract, the
\* backup slot and every table as they were.
C12_FreshSkip ==
    (/\ calls["check_if_obsolete"] = 1
     /\ pc \notin {"check_if_obsolete", "crashed"}
     /\ NoFlags
     /\ Exists(pre_files[1]) /\ pre_files[1].size = remote_file_size)
        => /\ pc = "exited" /\ exitCode = 0
           /\ pbf = pre_files[1] /\ pbf_backup = pre_files[2]
           /\ tbl = pre
           /\ \A o \in Ops \ {"connect", "check_if_obsolete"} : calls[o] = 0

C12_Witness ==
    /\ pc = "exited" /\ exitCode = 0
    /\ calls["check_if_obsolete"] = 1 /\ NoFlags
    /\ Exists(pbf) /\ pbf.size = remote_file_size
    /\ \E t \in AllTables : Present(t)

\* C13: of two invocations without flags against an unchanged remote, the
\* second changes neither the extract, nor the backup file, nor any table.
\* The first invocation is taken to have ended with status 0, the case
\* most favourable to the claim.
C13_SecondRunIdle ==
    (runNo = 2 /\ prev_exitCode = 0 /\ NoFlags)
        => /\ pbf = pre_files[1] /\ pbf_backup = pre_files[2]
           /\ tbl = pre

\* prepare_download was called and has ended without leaving for download_pbf.
MoveToBackupAborted ==
    calls["prepare_download"] = 1 /\ calls["download_pbf"] = 0
        /\ pc \notin {"prepare_download", "download_pbf"}

\* C14: an error other than "no such file" while the extract is moved to the
\* backup ends the process with a status other than 0 before download_pbf is
\* called, with the extract, the backup slot and every table unchanged; a run
\* reaches download_pbf without a backup only when there was no extract.
C14_MoveErrorAborts ==
    /\ MoveToBackupAborted
         => /\ pc = "exited" /\ exitCode = 1
            /\ pbf = pre_files[1] /\ pbf_backup = pre_files[2]
            /\ tbl = pre
            /\ calls["update_db"] = 0 /\ calls["create_layers"] = 0
    /\ (calls["prepare_download"] = 1 /\ pc # "prepare_download" /\ ~MoveToBackupAborted
           /\ ~file_backup_is_done)
         => ~Exists(pre_files[1])

C14_Witness ==
    /\ MoveToBackupAborted
    /\ Exists(pbf) /\ pbf.size # remote_file_size
    /\ pc = "exited" /\ exitCode = 1
    /\ \E t \in BaseTables : Present(t)

\* C15 as claimed: once the file stage of a run that started with an extract
\* has ended, exactly one of map.pbf and map.backup exists.
C15_ExactlyOneSlot ==
    (FileStageEnded /\ Exists(pre_files[1]))
        => (Exists(pbf) # Exists(pbf_backup))

\* C15: once the file stage of a run that started with an extract has ended,
\* at least one of map.pbf and map.backup exists.  After an abort at the
\* backup step both are as they were.  After a commit (delete_backup called)
\* the downloaded file is at map.pbf and map.backup is gone or, its deletion
\* having failed, still holds the previous extract.  After a rollback
\* (restore_backup called) either the previous extract is back at map.pbf
\* and map.backup is gone, or the move failed and map.backup still holds the
\* previous extract.
C15_SlotKeptOnFailure ==
    (FileStageEnded /\ Exists(pre_files[1]))
        => /\ Exists(pbf) \/ Exists(pbf_backup)
           /\ MoveToBackupAborted
                => (pbf = pre_files[1] /\ pbf_backup = pre_files[2])
           /\ calls["delete_backup"] = 1
                => /\ Exists(pbf) /\ pbf.gen = runNo
                   /\ pbf_backup \in {NoFile, pre_files[1]}
           /\ calls["restore_backup"] = 1
                => \/ pbf = pre_files[1] /\ ~Exists(pbf_backup)
                   \/ pbf_backup = pre_files[1] /\ pbf # pre_files[1]
           /\ calls["delete_backup"] + calls["restore_backup"] = 1 \/ MoveToBackupAborted

\* A rollback whose move failed: the truncated download and the backup both exist.
C15_Witness ==
    /\ FileStageEnded /\ Exists(pre_files[1])
    /\ calls["restore_backup"] = 1
    /\ Exists(pbf) /\ pbf.gen = runNo
    /\ pbf_backup = pre_files[1]

\* C16: restore_tables was called: when update_db has ended there are no two
\* base tables of which the earlier is back with its content of before the
\* call while the later is missing.
C16_NoPartialRestore ==
    (UpdateDbEnded /\ calls["restore_tables"] = 1)
        => \A i, j \in 1..Len(TABLES_OSM) :
              i < j => ~(/\ tbl[TABLES_OSM[i]] = pre[TABLES_OSM[i]]
                         /\ Present(TABLES_OSM[i])
                         /\ ~Present(TABLES_OSM[j])
                         /\ Present(Bk(TABLES_OSM[j])))

\* The operations the claim says are not retried.
OnceOps == {"download_pbf", "update_osm_tables"} \cup Range(LAYERS)

\* The terminal outcome of a run.
Outcome ==
    IF pc = "done" THEN "Done"
    ELSE IF pc = "exited" /\ exitCode = 0 THEN "SkippedNoWork"
    ELSE IF pc \in {"exited", "crashed"} THEN "Aborted"
    ELSE "Running"

\* C17: every run ends, and stays, in one terminal outcome; the fetch, the
\* importer and each layer statement are invoked at most once in a run; the
\* download loop goes on only while fewer bytes than the declared length
\* were written, and every pass writes at least one byte or leaves the loop.
C17_TerminatesOnce ==
    /\ [](\A o \in OnceOps : calls[o] <= 1)
    /\ [](pc = "download_loop" => downloaded_size < remote_file_size)
    /\ [][pc = "download_loop" => (pc' # "download_loop" \/ downloaded_size' > downloaded_size)]_vars
    /\ [](Outcome = "SkippedNoWork" => \A o \in OnceOps : calls[o] = 0)
    /\ [](Outcome = "Done" => exitCode = 0)
    /\ [](Outcome = "Aborted" => exitCode = 1)
    /\ [][Outcome # "Running" => Outcome' = Outcome]_vars
    /\ <>[](Outcome # "Running")

\* A run that fetched, imported and built both layers, each once.
C17_Witness ==
    /\ Outcome = "Done"
    /\ \A o \in OnceOps : calls[o] = 1
    /\ downloaded_size = remote_file_size /\ remote_file_size = MaxSize

\* A layer statement has failed in create_layers.
LayerBuildFailed == calls["create_layers"] = 1 /\ ~layers_created

\* C18: the step in which a layer statement fails ends the process with a
\* status other than 0: no later layer statement was or will be executed and
\* no layer backup is dropped; if the layer backups were complete they all
\* still hold the content the layers had before the call.
C18_StopsAtFirstFailure ==
    /\ [][(pc = "build_layers" /\ ~layers_created')
            => /\ pc' = "exited" /\ exitCode' = 1
               /\ \A j \in (idx + 1)..Len(LAYERS) : calls'[LAYERS[j]] = 0
               /\ \A l \in LayerTables : tbl'[Bk(l)] = tbl[Bk(l)]]_vars
    /\ [](LayerBuildFailed
            => /\ pc = "exited" /\ exitCode = 1
               /\ ly_backup_is_done
                    => \A l \in LayerTables : Present(Bk(l)) /\ tbl[Bk(l)] = pre[l])

\* The first layer statement failed after complete layer backups.
C18_Witness ==
    /\ LayerBuildFailed
    /\ ly_backup_is_done
    /\ calls["line_water"] = 1 /\ calls["area_water"] = 0
    /\ \A l \in LayerTables : Present(Bk(l))
    /\ pc = "exited"

\* The operations that execute SQL statements on self.cur.
DbOps == {"backup_tables", "drop_tables", "restore_tables", "backup_layers"} \cup Range(LAYERS)

\* Positions at which the next step executes an SQL statement.
StatementPcs == (UpdateDbPcs \cup CreateLayersPcs) \ {"update_osm_tables", "update_db_fail"}

\* C19: an SQL statement is issued only on a connection that was opened
\* before it in the same run and is not closed yet.
C19_StatementsOnOpenConnection ==
    /\ (\E o \in DbOps : calls[o] >= 1) => conn # "none"
    /\ pc \in StatementPcs => conn # "closed"

\* download_pbf has returned False.
FetchFailed == calls["download_pbf"] = 1 /\ ~fetched /\ pc \notin {"download_pbf", "download_loop"}

\* C20: after a fetch that failed, the run ends with the previous extract or
\* no file at map.pbf, never the file the download was writing; and the
\* importer is never run while map.pbf holds a download shorter than the
\* declared length.  A rollback whose move back failed with the backup still
\* in place is not counted against the claim.
C20_NoPartialExtract ==
    /\ (Terminal /\ FetchFailed)
         => \/ pbf \in {pre_files[1], NoFile}
            \/ calls["restore_backup"] = 1 /\ Exists(pbf_backup)
    /\ calls["update_osm_tables"] = 1
         => (pbf.gen = runNo => pbf.size = remote_file_size)

====
